---- MODULE Spec2Model ----
(***************************************************************************)
(* Model of src/algebra.cc: the two free functions                         *)
(*     int Cube(int number)   { return number * number * number; }         *)
(*     int Square(int number) { return number * number; }                  *)
(* over a W-bit two's-complement `int`.  Signed overflow of `*` is         *)
(* undefined behaviour in C++; it is modelled as a nondeterministic choice *)
(* among what builds of this code produce: the wrapped product (plain      *)
(* imul), the unwrapped mathematical product (the optimiser assumes no     *)
(* overflow and keeps the value in a wider register), or a trap (-ftrapv,  *)
(* UBSan).                                                                 *)
(*                                                                         *)
(* Spec     : one caller; every call is one atomic step.                   *)
(* ConcSpec : two execution contexts run calls concurrently, one           *)
(*            multiplication per step, each on its own locals.             *)
(***************************************************************************)
EXTENDS Integers, FiniteSets

\* Width of `int` in bits (32 on the usual platforms; scaled down here).
W == 7

IntMin == -(2 ^ (W - 1))
IntMax == (2 ^ (W - 1)) - 1
Int_ == IntMin .. IntMax

\* Execution contexts of ConcSpec.
Threads == {"t1", "t2"}

\* The outcome of a call: the value it returned, or a trap that aborted it.
Val(v) == [trap |-> FALSE, val |-> v]
Trap == [trap |-> TRUE, val |-> 0]

\* v reduced modulo 2^W into the two's-complement signed range.
Wrap(v) == ((v - IntMin) % (2 ^ W)) + IntMin

\* Mutant of OverflowOutcomes: the multiplication saturates.
OverflowSaturates(v) == {Val(IF v > IntMax THEN IntMax ELSE IntMin), Trap}

\* What an overflowing signed multiplication with mathematical value v does.
OverflowOutcomes(v) == {Val(Wrap(v)), Val(v), Trap}

\* Mutant of IntMul: the product is formed in a type one bit narrower.
IntMulNarrow(a, b) ==
  IF a * b \in (-(2 ^ (W - 2))) .. ((2 ^ (W - 2)) - 1)
  THEN {Val(a * b)} ELSE OverflowOutcomes(a * b)

\* The C++ expression a * b on int operands.
IntMul(a, b) ==
  IF a * b \in Int_ THEN {Val(a * b)} ELSE OverflowOutcomes(a * b)

\* (x) * b where x is the outcome of the inner multiplication: a trap in the
\* inner one ends the call.
ThenMul(x, b) ==
  IF x.trap THEN {Trap} ELSE IntMul(x.val, b)

\* Mutants of Square: `+` typed for `*`; the body of Cube pasted in.
SquareAdd(n) == {Val(Wrap(n + n))}
SquareAsCube(n) == UNION { ThenMul(x, n) : x \in IntMul(n, n) }

\* int Square(int number): the set of outcomes of one call.
Square(n) == IntMul(n, n)

\* Mutants of Cube: the second `*` typed as `+`; the body of Square pasted in.
CubePlus(n) == {Val(Wrap(n * n + n))}
CubeAsSquare(n) == IntMul(n, n)

\* int Cube(int number): (number * number) * number, left to right.
Cube(n) == UNION { ThenMul(x, n) : x \in IntMul(n, n) }

Outcomes(o, n) == IF o = "Square" THEN Square(n) ELSE Cube(n)

VARIABLES callOp,    \* Spec: the function of the latest call ("none" before any)
  callArg,   \* Spec: its argument
  callRet,   \* Spec: its outcome (a value or Trap)
  pc,        \* ConcSpec: per context, "idle" | "mul1" | "mul2" | "done"
  op,        \* ConcSpec: per context, the function it runs
  number,    \* ConcSpec: per context, the parameter `number` of its frame
  tmp,       \* ConcSpec: per context, the temporary number * number
  ret        \* ConcSpec: per context, the outcome of its call

seqVars == <<callOp, callArg, callRet>>
concVars == <<pc, op, number, tmp, ret>>
vars == <<callOp, callArg, callRet, pc, op, number, tmp, ret>>

SeqInit ==
  /\ callOp = "none"
  /\ callArg = 0
  /\ callRet = Val(0)

ConcInit ==
  /\ pc = [t \in Threads |-> "idle"]
  /\ op = [t \in Threads |-> "none"]
  /\ number = [t \in Threads |-> 0]
  /\ tmp = [t \in Threads |-> 0]
  /\ ret = [t \in Threads |-> Val(0)]

Init == SeqInit /\ ConcInit

\* The caller evaluates Square(n).
CallSquare ==
  /\ \E n \in Int_ : \E r \in Square(n) :
       /\ callOp' = "Square"
       /\ callArg' = n
       /\ callRet' = r
  /\ UNCHANGED concVars

\* The caller evaluates Cube(n).
CallCube ==
  /\ \E n \in Int_ : \E r \in Cube(n) :
       /\ callOp' = "Cube"
       /\ callArg' = n
       /\ callRet' = r
  /\ UNCHANGED concVars

Next == CallSquare \/ CallCube

Spec == Init /\ [][Next]_vars

----------------------------------------------------------------------------
(* ConcSpec: calls running concurrently in the contexts of Threads.         *)

\* Mutant of Operand: the parameter lives in one static slot, not in the frame.
OperandStatic(t) == number["t1"]

\* The parameter `number` as context t reads it: its own copy, passed by value.
Operand(t) == number[t]

\* Mutant of SetTmp: the temporary is one static slot shared by all contexts.
SetTmpStatic(t, v) == [u \in Threads |-> v]

\* Context t keeps the value of its inner product number * number.
SetTmp(t, v) == [tmp EXCEPT ![t] = v]

\* Context t calls o(n): the argument is copied into the frame of the call.
Enter(t) ==
  /\ pc[t] = "idle"
  /\ \E o \in {"Square", "Cube"} : \E n \in Int_ :
       /\ op' = [op EXCEPT ![t] = o]
       /\ number' = [number EXCEPT ![t] = n]
  /\ pc' = [pc EXCEPT ![t] = "mul1"]
  /\ UNCHANGED <<tmp, ret>>
  /\ UNCHANGED seqVars

\* Context t evaluates number * number: the result of Square, the inner
\* product of Cube.
Mul1(t) ==
  /\ pc[t] = "mul1"
  /\ \E x \in IntMul(Operand(t), Operand(t)) :
       IF x.trap \/ op[t] = "Square"
       THEN /\ ret' = [ret EXCEPT ![t] = x]
            /\ pc' = [pc EXCEPT ![t] = "done"]
            /\ UNCHANGED tmp
       ELSE /\ tmp' = SetTmp(t, x.val)
            /\ pc' = [pc EXCEPT ![t] = "mul2"]
            /\ UNCHANGED ret
  /\ UNCHANGED <<op, number>>
  /\ UNCHANGED seqVars

\* Context t evaluates (number * number) * number, the result of Cube.
Mul2(t) ==
  /\ pc[t] = "mul2"
  /\ \E r \in IntMul(tmp[t], Operand(t)) :
       ret' = [ret EXCEPT ![t] = r]
  /\ pc' = [pc EXCEPT ![t] = "done"]
  /\ UNCHANGED <<op, number, tmp>>
  /\ UNCHANGED seqVars

\* The caller in context t has taken the result; the frame is gone.
Return(t) ==
  /\ pc[t] = "done"
  /\ pc' = [pc EXCEPT ![t] = "idle"]
  /\ op' = [op EXCEPT ![t] = "none"]
  /\ number' = [number EXCEPT ![t] = 0]
  /\ tmp' = [tmp EXCEPT ![t] = 0]
  /\ ret' = [ret EXCEPT ![t] = Val(0)]
  /\ UNCHANGED seqVars

ConcNext ==
  \E t \in Threads : Enter(t) \/ Mul1(t) \/ Mul2(t) \/ Return(t)

ConcSpec == Init /\ [][ConcNext]_vars

----------------------------------------------------------------------------
(* The properties.                                                          *)

\* The mathematical product a call is meant to return, and whether it fits.
Exact(o, n) == IF o = "Square" THEN n * n ELSE n * n * n
Safe(o, n) == Exact(o, n) \in Int_

\* A call o(n) can overflow: some build aborts it with a trap.
Overflows(o, n) == Trap \in Outcomes(o, n)

Abs(n) == IF n < 0 THEN -n ELSE n

\* The smallest |n| at which o overflows.
MinOverflowAbs(o) ==
  CHOOSE m \in 0 .. (IntMax + 1) :
    /\ \E n \in Int_ : Abs(n) = m /\ Overflows(o, n)
    /\ \A n \in Int_ : Overflows(o, n) => Abs(n) >= m

Called(o) == callOp = o

\* C1: whenever n * n is representable, Square(n) returns exactly n * n;
\* Square(0) = 0, Square(3) = 9, Square(-4) = 16.
SquareExact ==
  /\ (Called("Square") /\ callArg * callArg \in Int_)
       => callRet = Val(callArg * callArg)
  /\ Square(0) = {Val(0)}
  /\ Square(3) = {Val(9)}
  /\ Square(-4) = {Val(16)}

SquareExactWitness ==
  Called("Square") /\ callArg = -4 /\ callRet = Val(16)

\* C2: whenever n * n * n is representable, Cube(n) returns exactly
\* n * n * n; Cube(0) = 0, Cube(3) = 27, Cube(-2) = -8.
CubeExact ==
  /\ (Called("Cube") /\ callArg * callArg * callArg \in Int_)
       => callRet = Val(callArg * callArg * callArg)
  /\ Cube(0) = {Val(0)}
  /\ Cube(3) = {Val(27)}
  /\ Cube(-2) = {Val(-8)}

CubeExactWitness ==
  Called("Cube") /\ callArg = 3 /\ callRet = Val(27)

\* C3: even symmetry: when n, -n and n * n are representable, Square(-n)
\* returns what Square(n) returned.
SquareEven ==
  (Called("Square") /\ -callArg \in Int_ /\ callArg * callArg \in Int_)
    => Square(-callArg) = {callRet}

SquareEvenWitness ==
  Called("Square") /\ callArg = 5 /\ callRet = Val(25)

\* C4 as stated: odd symmetry: when n, -n and n * n * n are representable,
\* Cube(-n) returns -Cube(n).
CubeOddAsStated ==
  (Called("Cube") /\ -callArg \in Int_ /\ callArg * callArg * callArg \in Int_)
    => Cube(-callArg) = {Val(-callRet.val)}

\* C4 amended: odd symmetry holds when the cube of -n is representable too
\* (the range is asymmetric: IntMin may be a cube while IntMax + 1 is not
\* representable).
CubeOdd ==
  (/\ Called("Cube")
   /\ -callArg \in Int_
   /\ callArg * callArg * callArg \in Int_
   /\ (-callArg) * (-callArg) * (-callArg) \in Int_)
    => Cube(-callArg) = {Val(-callRet.val)}

CubeOddWitness ==
  Called("Cube") /\ callArg = -2 /\ callRet = Val(-8)

\* C5 as stated: two calls of the same operation with the same input return
\* the same output, whatever other calls ran before or between them.
DeterministicAsStated ==
  \A t, u \in Threads :
    (pc[t] = "done" /\ pc[u] = "done" /\ op[t] = op[u] /\ number[t] = number[u])
      => ret[t] = ret[u]

\* A step of one context leaves every other context's locals alone.
NoSideEffect ==
  \A t \in Threads :
    (\E u \in Threads \ {t} : pc'[u] # pc[u])
      => (op'[t] = op[t] /\ number'[t] = number[t] /\ tmp'[t] = tmp[t]
          /\ ret'[t] = ret[t] /\ pc'[t] = pc[t])

\* C5 amended: two calls of the same operation with the same input whose
\* product is representable return the same output, whatever other calls ran
\* before or between them, and a call changes nothing but its own locals and
\* result.
DeterministicWhenSafe ==
  /\ [](\A t, u \in Threads :
          (/\ pc[t] = "done" /\ pc[u] = "done"
           /\ op[t] = op[u] /\ number[t] = number[u]
           /\ Safe(op[t], number[t]))
            => ret[t] = ret[u])
  /\ [][NoSideEffect]_vars

DeterministicWitness ==
  /\ pc["t1"] = "done" /\ pc["t2"] = "done"
  /\ op["t1"] = "Cube" /\ op["t2"] = "Cube"
  /\ number["t1"] = 3 /\ number["t2"] = 3
  /\ ret["t1"] = Val(27) /\ ret["t2"] = Val(27)

\* C6: under every interleaving of concurrent calls, each call returns a
\* result it returns when run alone (its intermediate product included).
NoInterference ==
  \A t \in Threads :
    /\ pc[t] = "mul2" => Val(tmp[t]) \in Square(number[t])
    /\ pc[t] = "done" => ret[t] \in Outcomes(op[t], number[t])
    /\ (pc[t] = "done" /\ Safe(op[t], number[t]))
         => ret[t] = Val(Exact(op[t], number[t]))

NoInterferenceWitness ==
  /\ pc["t1"] = "done" /\ op["t1"] = "Cube" /\ number["t1"] = 3
  /\ ret["t1"] = Val(27)
  /\ pc["t2"] = "mul2" /\ op["t2"] = "Cube" /\ number["t2"] = -2
  /\ tmp["t2"] = 4

\* C7 as stated: for every representable input, overflowing ones included,
\* a call raises no error and yields an integer of the same width.
TotalAsStated ==
  callOp # "none" => (~callRet.trap /\ callRet.val \in Int_)

\* C7 amended: for every input whose product is representable, a call
\* completes in one step, raises no error and yields an integer of the same
\* width.
TotalWhenSafe ==
  (callOp # "none" /\ Safe(callOp, callArg))
    => (~callRet.trap /\ callRet.val \in Int_)

TotalWhenSafeWitness ==
  Called("Square") /\ callArg = -7 /\ callRet = Val(49)

\* C8 as stated: when the product is not representable the call signals no
\* error and returns the product reduced modulo 2^W into the signed range.
WrapsAsStated ==
  (callOp # "none" /\ ~Safe(callOp, callArg))
    => callRet = Val(Wrap(Exact(callOp, callArg)))

\* C8 amended: the wrapped product is one of the outcomes of every call, and
\* a call's outcome differs from it (a trap, another value) only when the
\* product is not representable.
WrapsUnlessOverflow ==
  callOp # "none" =>
    /\ Val(Wrap(Exact(callOp, callArg))) \in Outcomes(callOp, callArg)
    /\ callRet # Val(Wrap(Exact(callOp, callArg))) => ~Safe(callOp, callArg)

WrapsWitness ==
  /\ Called("Square") /\ callArg = IntMax
  /\ callRet = Trap
  /\ Val(1) \in Square(callArg)

\* C9: Cube overflows at a smaller input than Square: the smallest |n| at
\* which Cube overflows is below the smallest at which Square does, and
\* every n at which Square overflows makes Cube overflow too, not conversely.
CubeOverflowsFirst ==
  /\ MinOverflowAbs("Cube") < MinOverflowAbs("Square")
  /\ \A n \in Int_ : Overflows("Square", n) => Overflows("Cube", n)
  /\ \E n \in Int_ : Overflows("Cube", n) /\ ~Overflows("Square", n)
  /\ (Called("Square") /\ callRet = Trap) => Overflows("Cube", callArg)

CubeOverflowsFirstWitness ==
  Called("Cube") /\ callRet = Trap /\ ~Overflows("Square", callArg)

\* C10: whenever n * n * n is representable the inner product n * n of Cube
\* is representable too, and Cube(n) = n * Square(n).
CubeInnerProductSafe ==
  (Called("Cube") /\ Safe("Cube", callArg))
    => /\ ~Overflows("Square", callArg)
       /\ \A s \in Square(callArg) : callRet = Val(callArg * s.val)

CubeInnerProductWitness ==
  Called("Cube") /\ callArg = -3 /\ callRet = Val(-27)

====
